---- MODULE Spec2Model ----
(***************************************************************************)
(* Model of the perf trampoline subsystem (Python/perf_trampoline.c and    *)
(* Python/perf_jit_trampoline.c): the executable-memory arenas, the        *)
(* per-code-object trampoline dispatch, the perfmap and jitdump sinks and  *)
(* the init / fini / fork lifecycle.                                       *)
(*                                                                         *)
(* The program state is kept in the VARIABLES below.  Every handler is an  *)
(* operator from a state record to the set of state records it can end in  *)
(* (one per outcome of the system calls it makes), so that a handler that  *)
(* calls another one (SetCallbacks -> Fini, fork handler -> Fini, Init) is *)
(* the composition of the two.                                             *)
(***************************************************************************)
EXTENDS Integers, Sequences, FiniteSets, TLC

\* ------------------------------------------------------------------ bounds
\* Number of code objects the interpreter dispatches.
NCode == 2
\* Number of address-space regions mmap can hand out for arenas.
NBases == 2
\* Number of extra-slot indices the host can hand out before it returns -1.
MaxExtraUsers == 2
\* Number of trampolines compile_trampoline hands out in one run.
MaxAcquire == 2
\* Number of operations in one run.
MaxOps == 5
\* Number of interpreter threads.
NThreads == 2
\* round_up is called with values in -MaxValue..MaxValue and multiples in
\* 0..MaxMultiple.
MaxValue == 12
MaxMultiple == 6
\* A symbol name is "py::" qualname ":" filename: 5 bytes and up to
\* MaxNameExtra more.
MaxNameExtra == 8
\* Code sizes 1..MaxCodeSize are written beside the template sizes.
MaxCodeSize == 9
\* The CIE and FDE take from MinEhFrame to MinEhFrame + MaxEhFrameExtra
\* bytes.
MaxEhFrameExtra == 16

\* ------------------------------------------------------- program constants
\* size_t mem_size = 4096 * 16;
mem_size == 65536
\* #define PERF_JIT_CODE_PADDING 0x100
PERF_JIT_CODE_PADDING == 256
\* round_up(..., 16): the alignment of a trampoline chunk.
CHUNK_ALIGN == 16

NULL == 0
\* sizeof(CodeLoadEvent), sizeof(CodeUnwindingInfoEvent), sizeof(EhFrameHeader)
sizeof_CodeLoadEvent == 56
sizeof_CodeUnwindingInfoEvent == 40
sizeof_EhFrameHeader == 20
\* The eh_frame sizes looked at start here, below what the two
\* DWRF_SECTIONs of elf_init_ehframe emit on either target.
MinEhFrame == 40
\* The width of size_t and of int64_t.
SIZE_WIDTH == 64

\* Sizes of the assembled trampoline template, end - start.  The template is
\* fixed by the build and opaque here; 96 is the size the specification uses
\* in its scenarios; with 32768 an arena holds two chunks without padding
\* (the chunk size divides mem_size) and one with the jitdump padding, so
\* that an arena fills up within NCode code objects.
TemplateSizes == {96, 32768}

Codes == 1..NCode
\* Page-aligned addresses mmap may return for an arena.
Bases == {i * mem_size : i \in 1..NBases}
Paddings == {0, PERF_JIT_CODE_PADDING}

\* The failures the environment can inject: of mmap, mprotect and calloc in
\* new_code_arena, and of open, the handshake mmap, fdopen and
\* PyThread_allocate_lock in perf_map_jit_init.
ArenaFaults == {"mmap", "mprotect", "calloc"}
JitFaults == {"open", "handshake", "fdopen", "lock"}

VARIABLES
    template_size,        \* &_Py_trampoline_func_end - &_Py_trampoline_func_start
    perf_status,          \* _PyRuntime.ceval.perf.status
    eval_frame,           \* tstate->interp->eval_frame
    extra_code_index,     \* _PyRuntime.ceval.perf.extra_code_index
    co_extra_user_count,  \* interp->co_extra_user_count (host)
    perf_code_arena,      \* the arena list, head (newest) first
    mappings,             \* the bases of the regions mmap gave and munmap has
                          \* not taken back (kernel)
    trampoline_api,       \* callbacks in use, state pointer, code_padding
    perf_trampoline_type, \* _PyRuntime.ceval.perf.perf_trampoline_type
    persist_after_fork,   \* _PyRuntime.ceval.perf.persist_after_fork
    perf_jit_map_state,   \* static PerfMapJitState perf_jit_map_state
    jit_file,             \* the records of this process's /tmp/jit-<pid>.dump
    perf_map_state,       \* the perf map writer's file handle (host)
    map_file,             \* the entries of this process's /tmp/perf-<pid>.map
    parent_map_file,      \* the entries of the parent's /tmp/perf-<ppid>.map
    co_extra,             \* co_extra[co][index]: the code objects' extra slots
    crashed,              \* the process was killed by a fault
    sink_writes,          \* history: write_state calls per code object since
                          \* the last Init or Fini
    slots_used,           \* history: trampolines compiled per code object
                          \* since the last Init or Fini
    dispatches,           \* history: dispatches per code object since the
                          \* last Init or Fini (saturating at 2)
    n_acquired,           \* history: trampolines handed out so far
    n_ops,                \* history: operations run so far
    faults,               \* the failures the environment injects in this run
    last,                 \* what the last operation did (observation record)
    gil,                  \* the thread holding the interpreter lock, or 0 (host)
    pc,                   \* pc[t]: where thread t stands inside the jitdump sink
    map_lock_owner,       \* the thread holding perf_jit_map_state.map_lock, or 0
    ev_code_id,           \* ev_code_id[t]: ev.code_id of t's CodeLoadEvent
    calc                  \* one call of round_up or one record of
                          \* perf_map_jit_write_entry: arguments and result

vars == <<template_size, perf_status, eval_frame, extra_code_index,
          co_extra_user_count, perf_code_arena, mappings, trampoline_api,
          perf_trampoline_type, persist_after_fork, perf_jit_map_state,
          jit_file, perf_map_state, map_file, parent_map_file,
          co_extra, crashed, sink_writes, slots_used, dispatches,
          n_acquired, n_ops,
          faults, last, gil, pc, map_lock_owner, ev_code_id, calc>>

\* What only the threads inside the jitdump sink change.
tvars == <<gil, pc, map_lock_owner, ev_code_id>>

\* Everything but calc.
svars == <<template_size, perf_status, eval_frame, extra_code_index,
           co_extra_user_count, perf_code_arena, mappings, trampoline_api,
           perf_trampoline_type, persist_after_fork, perf_jit_map_state,
           jit_file, perf_map_state, map_file, parent_map_file,
           co_extra, crashed, sink_writes, slots_used, dispatches,
           n_acquired, n_ops,
           faults, last, gil, pc, map_lock_owner, ev_code_id>>

\* --------------------------------------------------------------- round_up
\* C's remainder: truncates towards zero, the sign follows the dividend.
CRem(a, b) ==
    LET ab == IF b < 0 THEN -b ELSE b
    IN  IF a >= 0 THEN a % ab ELSE -((-a) % ab)

\* A round_up that rounds towards zero.
round_up_trunc(value, multiple) ==
    IF multiple = 0 THEN value ELSE value - CRem(value, multiple)

round_up(value, multiple) ==
    IF multiple = 0 THEN value
    ELSE LET remainder == CRem(value, multiple)
         IN  IF remainder = 0 THEN value
             ELSE value + (multiple - remainder)

\* round_up of perf_jit_trampoline.c, a copy of the one above.
jit_round_up(value, multiple) ==
    IF multiple = 0 THEN value
    ELSE LET remainder == CRem(value, multiple)
         IN  IF remainder = 0 THEN value
             ELSE value + (multiple - remainder)

\* Both functions return size_t: a negative int64_t comes back as itself
\* plus 2^SIZE_WIDTH.  The value is kept as the pair (wrapped, low), which
\* stands for low + 2^SIZE_WIDTH when wrapped and for low otherwise.
to_size_t(v) == [wrapped |-> v < 0, low |-> v]

\* 2^k mod m
RECURSIVE Pow2Mod(_, _)
Pow2Mod(k, m) == IF k = 0 THEN 1 % m ELSE (2 * Pow2Mod(k - 1, m)) % m

\* r mod m, r >= x and r = x for a size_t r, an int64_t x and m > 0
SizeMod(r, m) ==
    ((IF r.wrapped THEN Pow2Mod(SIZE_WIDTH, m) ELSE 0) + (r.low % m)) % m

SizeGeq(r, x) == r.wrapped \/ r.low >= x

SizeEq(r, x) == ~r.wrapped /\ r.low = x

\* round_up(code_size + trampoline_api.code_padding, 16)
ChunkSize(code_size, padding) == round_up(code_size + padding, CHUNK_ALIGN)

\* size_t subtraction wraps; 2^30 stands for 2^64 (all sizes here are < 2^20).
SizeSub(a, b) == (a - b) % (2 ^ 30)

\* ------------------------------------------------------------ state record
Cur == [template_size |-> template_size, status |-> perf_status,
        eval_frame |-> eval_frame, index |-> extra_code_index,
        users |-> co_extra_user_count, arenas |-> perf_code_arena,
        mappings |-> mappings,
        api |-> trampoline_api, type |-> perf_trampoline_type,
        persist |-> persist_after_fork, jit |-> perf_jit_map_state,
        jit_file |-> jit_file, map |-> perf_map_state,
        map_file |-> map_file, parent_map_file |-> parent_map_file,
        extra |-> co_extra, crashed |-> crashed,
        sink_writes |-> sink_writes, slots_used |-> slots_used,
        dispatches |-> dispatches,
        n_acquired |-> n_acquired, faults |-> faults, last |-> last]

Set(s) ==
    /\ template_size' = s.template_size
    /\ perf_status' = s.status
    /\ eval_frame' = s.eval_frame
    /\ extra_code_index' = s.index
    /\ co_extra_user_count' = s.users
    /\ perf_code_arena' = s.arenas
    /\ mappings' = s.mappings
    /\ trampoline_api' = s.api
    /\ perf_trampoline_type' = s.type
    /\ persist_after_fork' = s.persist
    /\ perf_jit_map_state' = s.jit
    /\ jit_file' = s.jit_file
    /\ perf_map_state' = s.map
    /\ map_file' = s.map_file
    /\ parent_map_file' = s.parent_map_file
    /\ co_extra' = s.extra
    /\ crashed' = s.crashed
    /\ sink_writes' = s.sink_writes
    /\ slots_used' = s.slots_used
    /\ dispatches' = s.dispatches
    /\ n_acquired' = s.n_acquired
    /\ faults' = s.faults
    /\ last' = s.last

\* The observation record of an operation that has done nothing yet.
NoObs(op, co, s) ==
    [op |-> op, co |-> co, status |-> s.status,
     had |-> NULL, f |-> NULL, ret |-> "none", acquired |-> NULL,
     chunk |-> 0, new_arena |-> FALSE, wrote |-> FALSE, stored |-> FALSE,
     ub |-> "none", fail |-> "none", init_ret |-> "none", rc |-> 0,
     inited |-> FALSE, finied |-> FALSE, copied |-> "none"]

Begin(op, co, s) == [s EXCEPT !.last = NoObs(op, co, s)]

\* Sequencing: F continues every outcome of S that did not fault.
Then(S, F(_)) == UNION {IF x.crashed THEN {x} ELSE F(x) : x \in S}

\* A fault (SIGSEGV) at undefined behaviour `ub`.
Fault(s, ub) == [s EXCEPT !.crashed = TRUE, !.last.ub = ub]

\* The history counters restart at every Init and Fini.
ResetHistory(s) ==
    [s EXCEPT !.sink_writes = [c \in Codes |-> 0],
              !.slots_used = [c \in Codes |-> 0],
              !.dispatches = [c \in Codes |-> 0]]

\* ------------------------------------------------------------- code arenas
\* struct code_arena_st; `chunk` is the chunk_size new_code_arena copied the
\* template with (the contents of the mapping), `slots` the addresses
\* code_arena_new_code returned from this arena, in order (history).
Arena(memory, code_size, chunk) ==
    [start_addr |-> memory, current_addr |-> memory, size |-> mem_size,
     size_left |-> mem_size, code_size |-> code_size, chunk |-> chunk,
     slots |-> <<>>]

\* The bases of the regions the arenas of the list stand in.
Mapped(s) == {s.arenas[i].start_addr : i \in DOMAIN s.arenas}

\* The template was copied to memory + i * chunk_size for i < n_copies.
IsTemplateCopy(a, p) ==
    LET off == p - a.start_addr
        n_copies == a.size \div a.chunk
    IN  /\ off >= 0
        /\ off % a.chunk = 0
        /\ off \div a.chunk < n_copies

InArena(a, p) == a.start_addr <= p /\ p < a.start_addr + a.size

\* mmap(NULL, mem_size, ...) returned memory.
mmap(s, memory) == [s EXCEPT !.mappings = @ \cup {memory}]

\* A munmap that leaves the region mapped.
munmap_nothing(s, memory) == s

\* munmap(memory, mem_size)
munmap(s, memory) == [s EXCEPT !.mappings = @ \ {memory}]

\* The regions mmap can give, and the one the kernel picks: first fit.
FreeRegions(s) == Bases \ s.mappings

FirstFit(free) == {b \in free : \A c \in free : b <= c}

\* A new_code_arena that sets the status Failed at every failure.
new_code_arena_all_failed(s) ==
    LET code_size == s.template_size
        chunk_size == ChunkSize(code_size, s.api.code_padding)
        free == FreeRegions(s)
    IN  (IF "mmap" \in s.faults \/ free = {}
         THEN {[s EXCEPT !.status = "Failed", !.last.rc = -1,
                         !.last.fail = "mmap"]}
         ELSE {})
        \cup
        {[munmap(mmap(s, memory), memory) EXCEPT
             !.status = "Failed", !.last.rc = -1, !.last.fail = why] :
            memory \in FirstFit(free),
            why \in {"mprotect", "calloc"} \cap s.faults}
        \cup
        {[mmap(s, memory) EXCEPT
             !.arenas = <<Arena(memory, code_size, chunk_size)>> \o @,
             !.last.rc = 0, !.last.new_arena = TRUE] :
            memory \in FirstFit(free)}

\* new_code_arena(): one outcome per result of mmap, mprotect and calloc.
new_code_arena(s) ==
    LET code_size == s.template_size
        chunk_size == ChunkSize(code_size, s.api.code_padding)
        free == FreeRegions(s)
    IN  \* mmap fails (certain when no region is free)
        (IF "mmap" \in s.faults \/ free = {}
         THEN {[s EXCEPT !.status = "Failed", !.last.rc = -1,
                         !.last.fail = "mmap"]}
         ELSE {})
        \cup
        \* mprotect fails, or calloc fails: munmap and return -1
        {[munmap(mmap(s, memory), memory) EXCEPT
             !.last.rc = -1, !.last.fail = why] :
            memory \in FirstFit(free),
            why \in {"mprotect", "calloc"} \cap s.faults}
        \cup
        {[mmap(s, memory) EXCEPT
             !.arenas = <<Arena(memory, code_size, chunk_size)>> \o @,
             !.last.rc = 0, !.last.new_arena = TRUE] :
            memory \in FirstFit(free)}

\* munmap of every arena of the list, head first.
RECURSIVE UnmapArenas(_, _)
UnmapArenas(s, arenas) ==
    IF arenas = <<>> THEN s
    ELSE UnmapArenas(munmap(s, Head(arenas).start_addr), Tail(arenas))

\* free_code_arenas()
free_code_arenas(s) == UnmapArenas([s EXCEPT !.arenas = <<>>], s.arenas)

\* A code_arena_new_code that moves the cursor by the padding alone.
code_arena_new_code_by_padding(code_arena, padding) ==
    [code_arena EXCEPT
        !.size_left = SizeSub(@, padding),
        !.current_addr = @ + padding,
        !.slots = Append(@, code_arena.current_addr)]

\* code_arena_new_code(code_arena): the arena after the call; the trampoline
\* returned is the arena's current_addr before it.
code_arena_new_code(code_arena, padding) ==
    LET total_code_size == ChunkSize(code_arena.code_size, padding)
    IN  [code_arena EXCEPT
            !.size_left = SizeSub(@, total_code_size),
            !.current_addr = @ + total_code_size,
            !.slots = Append(@, code_arena.current_addr)]

\* An arena that is never found exhausted.
ArenaExhausted_never(size_left, total_code_size) == FALSE

\* (perf_code_arena->size_left <= total_code_size)
ArenaExhausted(size_left, total_code_size) == size_left <= total_code_size

\* The tail of compile_trampoline(): hand out a chunk of the head arena.
TakeFromHead(s) ==
    LET head == s.arenas[1]
    IN  [s EXCEPT !.arenas[1] = code_arena_new_code(head, s.api.code_padding),
                  !.last.acquired = head.current_addr,
                  !.last.chunk = ChunkSize(head.code_size, s.api.code_padding),
                  !.n_acquired = @ + 1]

\* compile_trampoline(): the trampoline is left in last.acquired (NULL on
\* failure).  With no head arena the first statement reads
\* perf_code_arena->code_size through a null pointer: the build either
\* faults there or has moved the read behind the NULL test.
compile_trampoline(s) ==
    IF s.arenas = <<>>
    THEN {Fault(s, "null_arena_read")}
         \cup
         Then({[s EXCEPT !.last.ub = "null_arena_read"]},
              LAMBDA t: Then(new_code_arena(t),
                   LAMBDA n: IF n.last.rc < 0 THEN {n} ELSE {TakeFromHead(n)}))
    ELSE LET total_code_size ==
                 ChunkSize(s.arenas[1].code_size, s.api.code_padding)
         IN  IF ArenaExhausted(s.arenas[1].size_left, total_code_size)
             THEN Then(new_code_arena(s),
                   LAMBDA n: IF n.last.rc < 0 THEN {n} ELSE {TakeFromHead(n)})
             ELSE {TakeFromHead(s)}

\* ------------------------------------------------- code object extra slots
\* _PyEval_RequestCodeExtraIndex(NULL): the next unused index, or -1 when
\* the host has none left.
RequestCodeExtraIndex(s) ==
    IF s.users >= MaxExtraUsers
    THEN [s EXCEPT !.index = -1]
    ELSE [s EXCEPT !.index = s.users, !.users = @ + 1]

\* _PyCode_GetExtra(co, index, &f): f is NULL for an index the code object
\* holds nothing at.
GetExtra(s, co, index) ==
    IF index < 0 \/ index >= s.users THEN NULL ELSE s.extra[co][index]

\* _PyCode_SetExtra(co, index, value): fails for an index never handed out.
SetExtra(s, co, index, value) ==
    IF index < 0 \/ index >= s.users
    THEN [s EXCEPT !.last.rc = -1]
    ELSE [s EXCEPT !.extra[co][index] = value, !.last.stored = TRUE]

\* ------------------------------------------------------------------ sinks
\* The perf map writer of the host.  Its handle is "NULL", "open" (on this
\* process's own file), or, in a forked child that has not closed it,
\* "parent" or "ancestor": the file of the process that opened it.
\* PyUnstable_PerfMapState_Init(): opens /tmp/perf-<pid>.map for appending.
PerfMapState_Init(s) == [s EXCEPT !.map = "open"]

\* PyUnstable_PerfMapState_Fini(): closes the handle.
PerfMapState_Fini(s) == [s EXCEPT !.map = "NULL"]

\* Appends to whichever file the handle is open on.
PerfMapAppend(s, entries) ==
    CASE s.map = "open" -> [s EXCEPT !.map_file = @ \o entries]
      [] s.map = "parent" -> [s EXCEPT !.parent_map_file = @ \o entries]
      [] OTHER -> s

\* PyUnstable_WritePerfMapEntry(): opens the file when the handle is NULL.
WritePerfMapEntry(s, co) ==
    PerfMapAppend(IF s.map = "NULL" THEN PerfMapState_Init(s) ELSE s, <<co>>)

\* PyUnstable_CopyPerfMapFile(parent_filename): opens the file when the
\* handle is NULL, then appends the parent's file to the handle's file.
CopyPerfMapFile(s) ==
    LET o == IF s.map = "NULL" THEN PerfMapState_Init(s) ELSE s
    IN  {[o EXCEPT !.last.rc = -1, !.last.fail = "copy"],
         [PerfMapAppend(o, o.parent_map_file) EXCEPT !.last.copied = o.map]}

\* perf_map_init_state()
perf_map_init_state(s) ==
    {[PerfMapState_Init(s) EXCEPT !.api.code_padding = 0, !.type = "MAP",
                                  !.api.state = "NULL"]}

\* perf_map_free_state()
perf_map_free_state(s) == {PerfMapState_Fini(s)}

\* perf_map_write_entry()
perf_map_write_entry(s, code_addr, co) == {WritePerfMapEntry(s, co)}

\* What perf_map_jit_write_header and perf_map_jit_write_entry put in the
\* file: the header, a stub's unwinding info, a stub's code load event.
JitHeader == <<"Header", 0>>
JitUnwindingInfo == <<"UnwindingInfo", 0>>
JitCodeLoad(code_id) == <<"CodeLoad", code_id>>

\* The code load event written with the counter as it was.
JitRecords_stale_id(code_id) == <<JitUnwindingInfo, JitCodeLoad(code_id)>>

\* The code load event written ahead of the unwinding info.
JitRecords_load_first(code_id) ==
    <<JitCodeLoad(code_id + 1), JitUnwindingInfo>>

\* The writes of one stub, in program order, starting from the counter
\* value code_id: the unwinding info, the increment, the code load event.
JitRecords(code_id) == <<JitUnwindingInfo, JitCodeLoad(code_id + 1)>>

\* perf_map_jit_init(): its return value is left in last.init_ret.  The
\* outcomes are those of open/sysconf, mmap, fdopen and
\* PyThread_allocate_lock.
perf_map_jit_init(s) ==
    \* open() or sysconf() fails
    (IF "open" \in s.faults THEN {[s EXCEPT !.last.init_ret = "NULL"]} ELSE {})
    \cup
    UNION {
        LET m == [s EXCEPT !.jit.mapped_buffer = buf]
        IN  \* fdopen() fails; open(O_CREAT | O_TRUNC) has emptied the file
            (IF "fdopen" \in s.faults
             THEN {[m EXCEPT !.jit.perf_map = "NULL",
                             !.jit_file = <<>>,
                             !.last.init_ret = "NULL"]}
             ELSE {})
            \cup
            \* PyThread_allocate_lock() fails: the file, with its header,
            \* is closed, the handle kept
            (IF "lock" \in s.faults
             THEN {[m EXCEPT !.jit.perf_map = "closed",
                             !.jit.map_lock = FALSE,
                             !.jit_file = <<JitHeader>>,
                             !.last.init_ret = "NULL"]}
             ELSE {})
            \cup
            {[m EXCEPT !.jit.perf_map = "open", !.jit.map_lock = TRUE,
                       !.jit.code_id = 0,
                       !.jit_file = <<JitHeader>>,
                       !.api.code_padding = PERF_JIT_CODE_PADDING,
                       !.last.init_ret = "jit"]}
        \* mmap of the first page: a failure is MAP_FAILED, which the
        \* test against NULL lets through
        : buf \in {"mapped"} \cup
                  (IF "handshake" \in s.faults THEN {"MAP_FAILED"} ELSE {}) }

\* The records of one stub, perf_map_jit_write_entry() from line 509 on.
JitEmit(s) ==
    CASE s.jit.perf_map = "closed" ->
            \* fwrite on a closed FILE: a fault, or the bytes go nowhere
            {Fault(s, "closed_file"),
             [s EXCEPT !.jit.code_id = @ + 1, !.last.ub = "closed_file"]}
      [] s.jit.perf_map = "inherited" ->
            \* the handle of a forked child is open on its parent's file
            {[s EXCEPT !.jit.code_id = @ + 1]}
      [] OTHER ->
            {[s EXCEPT !.jit.code_id = @ + 1,
                       !.jit_file = @ \o JitRecords(s.jit.code_id)]}

\* perf_map_jit_write_entry()
perf_map_jit_write_entry(s, code_addr, co) ==
    IF s.jit.perf_map = "NULL"
    THEN Then(perf_map_jit_init(s),
              LAMBDA i: IF i.last.init_ret = "NULL" THEN {i} ELSE JitEmit(i))
    ELSE JitEmit(s)

\* perf_map_jit_fini()
perf_map_jit_fini(s) ==
    LET closed == [s EXCEPT !.jit.perf_map = "NULL", !.jit.map_lock = FALSE,
                            !.api.state = "NULL"]
    IN  CASE s.jit.perf_map = "NULL" -> {[s EXCEPT !.api.state = "NULL"]}
          [] s.jit.perf_map \in {"open", "inherited"} -> {closed}
          \* a handle already closed, and no lock to acquire
          [] s.jit.perf_map = "closed" ->
                {Fault(s, "closed_file"),
                 [closed EXCEPT !.last.ub = "closed_file"]}

\* trampoline_api.init_state()
init_state(s0) ==
    LET s == [s0 EXCEPT !.last.inited = TRUE]
    IN  CASE s.api.callbacks = "perfmap" -> perf_map_init_state(s)
          [] s.api.callbacks = "jitdump" ->
                {[i EXCEPT !.api.state = i.last.init_ret] :
                    i \in perf_map_jit_init(s)}

\* trampoline_api.write_state(state, code_addr, code_size, co)
write_state(s, code_addr, co) ==
    LET w == [s EXCEPT !.last.wrote = TRUE, !.sink_writes[co] = @ + 1]
    IN  CASE s.api.callbacks = "none" -> {Fault(s, "null_callback")}
          [] s.api.callbacks = "perfmap" -> perf_map_write_entry(w, code_addr, co)
          [] s.api.callbacks = "jitdump" ->
                perf_map_jit_write_entry(w, code_addr, co)

\* trampoline_api.free_state(state)
free_state(s0) ==
    LET s == [s0 EXCEPT !.last.finied = TRUE]
    IN  CASE s.api.callbacks = "none" -> {Fault(s, "null_callback")}
          [] s.api.callbacks = "perfmap" -> perf_map_free_state(s)
          [] s.api.callbacks = "jitdump" -> perf_map_jit_fini(s)

\* --------------------------------------------------------------- dispatch
\* A status test that lets NoInit through.
StatusBlocks_failed_only(status) == status = "Failed"

\* perf_status == PERF_STATUS_FAILED || perf_status == PERF_STATUS_NO_INIT
StatusBlocks(status) == status = "Failed" \/ status = "NoInit"

\* A test that compiles whatever the slot holds.
NeedsCompile_always(f) == TRUE

\* ret != 0 || f == NULL
NeedsCompile(f) == f = NULL

\* The address holds a copy of the template in an arena that is mapped.
IsLiveStub(s, f) ==
    \E i \in DOMAIN s.arenas :
        InArena(s.arenas[i], f) /\ IsTemplateCopy(s.arenas[i], f)

\* return _PyEval_EvalFrameDefault(ts, frame, throw);
default_eval(s) == [s EXCEPT !.last.ret = "default"]

\* return f(ts, frame, throw, _PyEval_EvalFrameDefault): the template calls
\* its fourth argument with the first three.  Bytes that are not the
\* template, or an address that is not mapped, do anything.
CallThrough(s, f) ==
    LET c == [s EXCEPT !.last.f = f]
    IN  IF IsLiveStub(s, f)
        THEN {default_eval(c)}
        ELSE LET ub == IF \E i \in DOMAIN s.arenas : InArena(s.arenas[i], f)
                       THEN "garbage_call" ELSE "dangling_call"
             IN  {Fault(c, ub), [c EXCEPT !.last.ret = "garbage", !.last.ub = ub]}

\* The body shared by py_trampoline_evaluator (lines 394-402) and
\* PyUnstable_PerfTrampoline_CompileCode (lines 419-426): compile, tell the
\* sink, store.  F continues with the new trampoline, G after a failure.
CompileFor(s, co, F(_), G(_)) ==
    Then(compile_trampoline(s),
         LAMBDA c:
            IF c.last.acquired = NULL THEN G(c)
            ELSE Then(write_state([c EXCEPT !.slots_used[co] = @ + 1],
                                  c.last.acquired, co),
                      LAMBDA w: F(SetExtra(w, co, w.index, w.last.acquired))))

CountDispatch(s, co) ==
    [s EXCEPT !.dispatches[co] = IF @ < 2 THEN @ + 1 ELSE @]

\* py_trampoline_evaluator(ts, frame, throw), co the frame's code object.
py_trampoline_evaluator(s0, co) ==
    LET s == CountDispatch(s0, co)
    IN  IF StatusBlocks(s.status)
        THEN {default_eval(s)}
        ELSE LET f == GetExtra(s, co, s.index)
                 h == [s EXCEPT !.last.had = f]
             IN  IF NeedsCompile(f)
                 THEN CompileFor(h, co,
                                 LAMBDA t: CallThrough(t, t.last.acquired),
                                 LAMBDA t: {default_eval(t)})
                 ELSE CallThrough(h, f)

\* PyUnstable_PerfTrampoline_CompileCode(co)
PerfTrampoline_CompileCode(s, co) ==
    LET f == GetExtra(s, co, s.index)
        h == [s EXCEPT !.last.had = f]
    IN  IF NeedsCompile(f)
        THEN CompileFor(h, co, LAMBDA t: {t}, LAMBDA t: {t})
        ELSE {h}

\* -------------------------------------------------------------- lifecycle
\* A Fini that tears down whatever the status.
FiniSkips_never(status) == FALSE

\* if (perf_status != PERF_STATUS_OK) { return 0; }
FiniSkips(status) == status # "Ok"

\* _PyPerfTrampoline_Fini()
PerfTrampoline_Fini(s) ==
    IF FiniSkips(s.status) THEN {s}
    ELSE LET u == [s EXCEPT !.eval_frame =
                        IF @ = "trampoline" THEN "NULL" ELSE @]
         IN  Then(free_state(u),
                  LAMBDA t: {ResetHistory([t EXCEPT !.type = "UNSET",
                                                    !.index = -1,
                                                    !.status = "NoInit"])})

\* An Init that never calls the sink's init.
SinkNeedsInit_never(api) == FALSE

\* trampoline_api.state == NULL && trampoline_api.init_state != NULL
SinkNeedsInit(api) == api.state = "NULL" /\ api.callbacks # "none"

\* An Init that does not look at the installed evaluator.
ForeignHook_never(hook) == FALSE

\* eval_frame && eval_frame != py_trampoline_evaluator
ForeignHook(hook) == hook # "NULL" /\ hook # "trampoline"

\* _PyPerfTrampoline_Init(activate)
PerfTrampoline_Init(s, activate) ==
    IF ForeignHook(s.eval_frame)
    THEN {[s EXCEPT !.last.rc = -1, !.last.fail = "foreign"]}
    ELSE IF ~activate
    THEN {ResetHistory([s EXCEPT !.eval_frame = "NULL", !.status = "NoInit"])}
    ELSE Then(new_code_arena(
                ResetHistory([s EXCEPT !.eval_frame = "trampoline"])),
           LAMBDA n:
              IF n.last.rc < 0 THEN {n}
              ELSE LET r == RequestCodeExtraIndex(n)
                   IN  IF r.index = -1
                       THEN {[r EXCEPT !.last.rc = -1, !.last.fail = "index"]}
                       ELSE Then(IF SinkNeedsInit(r.api)
                                 THEN init_state(r) ELSE {r},
                                 LAMBDA t: {[t EXCEPT !.status = "Ok"]}))

\* _PyPerfTrampoline_SetCallbacks(callbacks)
PerfTrampoline_SetCallbacks(s, callbacks) ==
    Then(IF s.api.state # "NULL" THEN PerfTrampoline_Fini(s) ELSE {s},
         LAMBDA t: {[t EXCEPT !.api.callbacks = callbacks,
                              !.api.state = "NULL"]})

\* _PyPerfTrampoline_FreeArenas()
PerfTrampoline_FreeArenas(s) == {free_code_arenas(s)}

\* PyUnstable_PerfTrampoline_SetPersistAfterFork(enable)
PerfTrampoline_SetPersistAfterFork(s, enable) ==
    {[s EXCEPT !.persist = enable]}

\* fork(): the child has its parent's memory, mappings and open files under
\* a new pid.  Its own files do not exist yet, and a handle it inherits is
\* open on the file of the process that opened it.
Forked(s) ==
    [s EXCEPT !.jit.perf_map = IF @ = "open" THEN "inherited" ELSE @,
              !.jit_file = <<>>,
              !.map = CASE @ = "open" -> "parent"
                        [] @ = "parent" -> "ancestor"
                        [] OTHER -> @,
              !.parent_map_file = s.map_file,
              !.map_file = <<>>]

\* _PyPerfTrampoline_AfterFork_Child(), run in the child on a copy of the
\* parent's state.
PerfTrampoline_AfterFork_Child(s0) ==
    LET s == Forked(s0)
    IN
    IF s.persist
    THEN IF s.type # "MAP"
         THEN {[s EXCEPT !.last.rc = -1, !.last.fail = "not_map"]}
         ELSE Then(PerfTrampoline_Fini(s), LAMBDA t: CopyPerfMapFile(t))
    ELSE LET was_active == s.eval_frame = "trampoline"
         IN  Then(PerfTrampoline_Fini(s),
                  LAMBDA t: IF was_active THEN PerfTrampoline_Init(t, TRUE)
                            ELSE {t})

\* ---------------------------------------------------------------- threads
\* The interpreter threads that may dispatch.
Threads == 1..NThreads

\* The interpreter lock: a thread runs interpreter code only while it holds
\* it, and nothing in the sink gives it up.
take_gil(t) == gil = 0 /\ gil' = t

drop_gil == gil' = 0

\* ---------------------------------------------------------------- actions
\* An operation runs to its end; a fault ends the process, whose memory is
\* gone: only the fault is left to see.
RunOp(op, co, Handler(_)) ==
    /\ n_ops < MaxOps
    /\ n_ops' = n_ops + 1
    /\ \E o \in Handler(Begin(op, co, Cur)) :
          IF o.crashed
          THEN Set([Cur EXCEPT !.crashed = TRUE,
                               !.last = [NoObs(op, co, Cur) EXCEPT
                                            !.ub = o.last.ub]])
          ELSE Set([o EXCEPT !.last.init_ret = "none"])

\* An operation run from start to end by one thread.
Run(op, co, Handler(_)) ==
    RunOp(op, co, Handler) /\ UNCHANGED tvars /\ UNCHANGED calc

\* The operation would ask compile_trampoline for a trampoline.
WouldCompile(co) == NeedsCompile(GetExtra(Cur, co, extra_code_index))

Dispatch(co) ==
    /\ ~crashed
    /\ eval_frame = "trampoline"
    /\ (~StatusBlocks(perf_status) /\ WouldCompile(co))
           => n_acquired < MaxAcquire
    /\ Run("Dispatch", co, LAMBDA s: py_trampoline_evaluator(s, co))

CompileCode(co) ==
    /\ ~crashed
    /\ WouldCompile(co) => n_acquired < MaxAcquire
    /\ Run("CompileCode", co, LAMBDA s: PerfTrampoline_CompileCode(s, co))

InitOp(activate) ==
    /\ ~crashed
    /\ Run("Init", NULL, LAMBDA s: PerfTrampoline_Init(s, activate))

FiniOp ==
    /\ ~crashed
    /\ Run("Fini", NULL, LAMBDA s: PerfTrampoline_Fini(s))

SetCallbacks(callbacks) ==
    /\ ~crashed
    /\ Run("SetCallbacks", NULL,
           LAMBDA s: PerfTrampoline_SetCallbacks(s, callbacks))

FreeArenas ==
    /\ ~crashed
    /\ Run("FreeArenas", NULL, LAMBDA s: PerfTrampoline_FreeArenas(s))

SetPersistAfterFork(enable) ==
    /\ ~crashed
    /\ Run("SetPersistAfterFork", NULL,
           LAMBDA s: PerfTrampoline_SetPersistAfterFork(s, enable))

AfterFork_Child ==
    /\ ~crashed
    /\ Run("AfterFork_Child", NULL,
           LAMBDA s: PerfTrampoline_AfterFork_Child(s))

\* Another user of the interpreter installs or removes its own evaluator.
SetEvalFrameFunc(foreign) ==
    /\ ~crashed
    /\ Run("SetEvalFrameFunc", NULL,
           LAMBDA s: {[s EXCEPT !.eval_frame =
                           IF foreign THEN "foreign" ELSE "NULL"]})

\* perf_map_jit_write_entry(), as write_state calls it for a new stub, up to
\* the lazy init: a failed init returns.  No lock is taken.
WriteEntryBegin(t) ==
    /\ UNCHANGED calc
    /\ ~crashed /\ pc[t] = "idle"
    /\ n_ops < MaxOps
    /\ perf_status = "Ok" /\ eval_frame = "trampoline"
    /\ trampoline_api.callbacks = "jitdump"
    /\ take_gil(t)
    /\ n_ops' = n_ops + 1
    /\ \E o \in (IF perf_jit_map_state.perf_map = "NULL"
                 THEN perf_map_jit_init(Cur) ELSE {Cur}) :
          /\ Set([o EXCEPT !.last.init_ret = "none"])
          /\ pc' = [pc EXCEPT ![t] = IF o.last.init_ret = "NULL"
                                     THEN "return" ELSE "entry"]
    /\ UNCHANGED <<map_lock_owner, ev_code_id>>

\* The early return of line 505.
WriteEntryReturn(t) ==
    /\ UNCHANGED calc
    /\ ~crashed /\ pc[t] = "return"
    /\ drop_gil
    /\ pc' = [pc EXCEPT ![t] = "idle"]
    /\ Set(Cur)
    /\ UNCHANGED <<n_ops, map_lock_owner, ev_code_id>>

\* The unwinding info, eh_frame header and eh_frame of the stub.
WriteUnwindingInfo(t) ==
    /\ UNCHANGED calc
    /\ ~crashed /\ pc[t] = "entry"
    /\ Set([Cur EXCEPT !.jit_file =
                 IF perf_jit_map_state.perf_map = "open"
                 THEN @ \o <<JitUnwindingInfo>> ELSE @])
    /\ pc' = [pc EXCEPT ![t] = "unwound"]
    /\ UNCHANGED <<n_ops, gil, map_lock_owner, ev_code_id>>

\* perf_jit_map_state.code_id += 1; ev.code_id = perf_jit_map_state.code_id;
IncrementCodeId(t) ==
    /\ UNCHANGED calc
    /\ ~crashed /\ pc[t] = "unwound"
    /\ Set([Cur EXCEPT !.jit.code_id = @ + 1])
    /\ ev_code_id' = [ev_code_id EXCEPT ![t] = perf_jit_map_state.code_id + 1]
    /\ pc' = [pc EXCEPT ![t] = "counted"]
    /\ UNCHANGED <<n_ops, gil, map_lock_owner>>

\* The code load event, the name and the code bytes; the thread goes back
\* to the evaluator and on.
WriteCodeLoad(t) ==
    /\ UNCHANGED calc
    /\ ~crashed /\ pc[t] = "counted"
    /\ Set([Cur EXCEPT !.jit_file =
                 IF perf_jit_map_state.perf_map = "open"
                 THEN @ \o <<JitCodeLoad(ev_code_id[t])>> ELSE @])
    /\ pc' = [pc EXCEPT ![t] = "idle"]
    /\ drop_gil
    /\ UNCHANGED <<n_ops, map_lock_owner, ev_code_id>>

\* _PyPerfTrampoline_Fini() from status Ok with the jitdump file open, up
\* to PyThread_acquire_lock in perf_map_jit_fini.  What Fini has assigned
\* so far is seen by no other thread before FiniClose.
FiniLock(t) ==
    /\ UNCHANGED calc
    /\ ~crashed /\ pc[t] = "idle"
    /\ n_ops < MaxOps
    /\ ~FiniSkips(perf_status)
    /\ trampoline_api.callbacks = "jitdump"
    /\ perf_jit_map_state.perf_map = "open"
    /\ take_gil(t)
    /\ map_lock_owner = 0 /\ map_lock_owner' = t
    /\ pc' = [pc EXCEPT ![t] = "fini_locked"]
    /\ Set(Cur)
    /\ UNCHANGED <<n_ops, ev_code_id>>

\* fclose under the lock, its release, and the rest of Fini.
FiniClose(t) ==
    /\ UNCHANGED calc
    /\ ~crashed /\ pc[t] = "fini_locked"
    /\ RunOp("Fini", NULL, LAMBDA s: PerfTrampoline_Fini(s))
    /\ map_lock_owner' = 0
    /\ pc' = [pc EXCEPT ![t] = "idle"]
    /\ drop_gil
    /\ UNCHANGED ev_code_id

\* ---------------------------------------------------------- jitdump records
RECURSIVE SumSeq(_)
SumSeq(q) == IF q = <<>> THEN 0 ELSE Head(q) + SumSeq(Tail(q))

\* An unwinding record written without padding.
UnwindingInfoPadding_none(content_size) == 0

\* int padding_size = round_up(content_size, 8) - content_size;
UnwindingInfoPadding(content_size) ==
    jit_round_up(content_size, 8) - content_size

\* The unwinding info record of a stub whose CIE and FDE take eh_frame_size
\* bytes: its fields, and the sizes of the writes that make it up, in order
\* (the event, the eh_frame, the eh_frame header, the padding).
UnwindingInfoRecord(eh_frame_size) ==
    LET content_size == sizeof_CodeUnwindingInfoEvent + sizeof_EhFrameHeader
                        + eh_frame_size
        padding_size == UnwindingInfoPadding(content_size)
        unwind_data_size == sizeof_EhFrameHeader + eh_frame_size
    IN  [event |-> "UnwindingInfo",
         size |-> content_size + padding_size,
         unwind_data_size |-> unwind_data_size,
         mapped_size |-> jit_round_up(unwind_data_size, 16),
         written |-> <<sizeof_CodeUnwindingInfoEvent, eh_frame_size,
                       sizeof_EhFrameHeader, padding_size>>]

\* The code load record of a stub of code_size bytes under a name of
\* name_length bytes: the event, the name with its NUL, the code.
CodeLoadRecord(name_length, code_size) ==
    [event |-> "CodeLoad",
     size |-> sizeof_CodeLoadEvent + (name_length + 1) + code_size,
     unwind_data_size |-> 0,
     mapped_size |-> 0,
     written |-> <<sizeof_CodeLoadEvent, name_length + 1, code_size>>]

\* No call of round_up and no record is looked at.
NoCalc == [kind |-> "none", value |-> 0, multiple |-> 0, name_length |-> 0,
           code_size |-> 0, eh_frame_size |-> 0, result |-> to_size_t(0)]

\* strlen("py::" entry ":" filename)
NameLengths == 5..(5 + MaxNameExtra)

\* code_size as write_state passes it
CodeSizes == TemplateSizes \cup 1..MaxCodeSize

\* ctx.p - ctx.startp after elf_init_ehframe: fixed by the target and by
\* the alignment of the buffer
EhFrameSizes == MinEhFrame..(MinEhFrame + MaxEhFrameExtra)

RoundUpArgs ==
    {[NoCalc EXCEPT !.kind = "round_up_args", !.value = x, !.multiple = m] :
        x \in (-MaxValue)..MaxValue, m \in 0..MaxMultiple}

EntryArgs ==
    {[NoCalc EXCEPT !.kind = "entry_args", !.name_length = n,
                    !.code_size = c, !.eh_frame_size = e] :
        n \in NameLengths, c \in CodeSizes, e \in EhFrameSizes}

\* round_up(value, multiple) of perf_trampoline.c
RoundUpCall ==
    /\ calc.kind = "round_up_args"
    /\ calc' = [calc EXCEPT !.kind = "round_up",
                            !.result = to_size_t(round_up(calc.value,
                                                          calc.multiple))]
    /\ UNCHANGED svars

\* round_up(value, multiple) of perf_jit_trampoline.c
JitRoundUpCall ==
    /\ calc.kind = "round_up_args"
    /\ calc' = [calc EXCEPT !.kind = "jit_round_up",
                            !.result = to_size_t(jit_round_up(calc.value,
                                                              calc.multiple))]
    /\ UNCHANGED svars

\* perf_map_jit_write_entry writes the unwinding info record
WriteUnwindingInfoRecord ==
    /\ calc.kind = "entry_args"
    /\ calc' = [calc EXCEPT !.kind = "UnwindingInfo",
                            !.result = UnwindingInfoRecord(calc.eh_frame_size)]
    /\ UNCHANGED svars

\* perf_map_jit_write_entry writes the code load record
WriteCodeLoadRecord ==
    /\ calc.kind = "entry_args"
    /\ calc' = [calc EXCEPT !.kind = "CodeLoad",
                            !.result = CodeLoadRecord(calc.name_length,
                                                      calc.code_size)]
    /\ UNCHANGED svars

InitCore(fault_sets) ==
    /\ faults \in fault_sets
    /\ n_ops = 0
    /\ template_size \in TemplateSizes
    /\ perf_status = "NoInit"
    /\ eval_frame = "NULL"
    /\ extra_code_index = -1
    \* other users of the code objects' extra slots hold the first indices
    /\ co_extra_user_count \in 0..MaxExtraUsers
    /\ perf_code_arena = <<>>
    /\ mappings = {}
    /\ trampoline_api = [callbacks |-> "none", state |-> "NULL",
                         code_padding |-> 0]
    /\ perf_trampoline_type = "UNSET"
    /\ persist_after_fork = FALSE
    /\ perf_jit_map_state = [perf_map |-> "NULL", map_lock |-> FALSE,
                             mapped_buffer |-> "NULL", code_id |-> 0]
    /\ jit_file = <<>>
    /\ perf_map_state = "NULL"
    /\ map_file = <<>>
    /\ parent_map_file = <<>>
    /\ co_extra = [c \in Codes |-> [i \in 0..(MaxExtraUsers - 1) |-> NULL]]
    /\ crashed = FALSE
    /\ sink_writes = [c \in Codes |-> 0]
    /\ slots_used = [c \in Codes |-> 0]
    /\ dispatches = [c \in Codes |-> 0]
    /\ n_acquired = 0
    /\ last = NoObs("none", NULL, [status |-> "NoInit"])
    /\ gil = 0
    /\ pc = [t \in Threads |-> "idle"]
    /\ map_lock_owner = 0
    /\ ev_code_id = [t \in Threads |-> 0]

InitWith(fault_sets) == InitCore(fault_sets) /\ calc = NoCalc

\* The arena and dispatch operations, under the failures of new_code_arena
\* and of the jitdump file's open.
Init == InitWith({ArenaFaults \cup {"open"}})

Next ==
    \/ \E co \in Codes : Dispatch(co)
    \/ \E co \in Codes : CompileCode(co)
    \/ \E activate \in BOOLEAN : InitOp(activate)
    \/ FiniOp
    \/ \E callbacks \in {"perfmap", "jitdump"} : SetCallbacks(callbacks)
    \/ FreeArenas
    \/ AfterFork_Child

Spec == Init /\ [][Next]_vars

\* The same operations together with those of the host that the lifecycle
\* reacts to: a foreign evaluator hook and the persist-after-fork switch,
\* under the failure of mmap.
InitHost == InitWith({{"mmap"}})

NextHost ==
    \/ Next
    \/ \E enable \in BOOLEAN : SetPersistAfterFork(enable)
    \/ \E foreign \in BOOLEAN : SetEvalFrameFunc(foreign)

SpecHost == InitHost /\ [][NextHost]_vars

\* Several interpreter threads in the jitdump sink, one step of
\* perf_map_jit_write_entry or perf_map_jit_fini at a time; open() may fail.
InitThreads == InitWith({{"open"}})

NextThreads ==
    \/ gil = 0 /\ \E callbacks \in {"perfmap", "jitdump"} :
                      SetCallbacks(callbacks)
    \/ gil = 0 /\ \E activate \in BOOLEAN : InitOp(activate)
    \/ \E t \in Threads : WriteEntryBegin(t)
    \/ \E t \in Threads : WriteEntryReturn(t)
    \/ \E t \in Threads : WriteUnwindingInfo(t)
    \/ \E t \in Threads : IncrementCodeId(t)
    \/ \E t \in Threads : WriteCodeLoad(t)
    \/ \E t \in Threads : FiniLock(t)
    \/ \E t \in Threads : FiniClose(t)

\* The operations of Spec under the failures of perf_map_jit_init.
InitJit == InitWith({JitFaults})

SpecJit == InitJit /\ [][Next]_vars

SpecThreads == InitThreads /\ [][NextThreads]_vars

\* The arithmetic of the two files, one call or one record at a time, for
\* every argument within the bounds.
InitPure == InitCore({{}}) /\ calc \in RoundUpArgs \cup EntryArgs

NextPure ==
    \/ RoundUpCall
    \/ JitRoundUpCall
    \/ WriteUnwindingInfoRecord
    \/ WriteCodeLoadRecord

SpecPure == InitPure /\ [][NextPure]_vars

\* ------------------------------------------------------------- properties
Compiling == {"Dispatch", "CompileCode"}

\* The trampolines handed out of the arenas that are mapped.
LiveSlots ==
    UNION {{<<i, k>> : k \in DOMAIN perf_code_arena[i].slots} :
              i \in DOMAIN perf_code_arena}

SlotAddr(ik) == perf_code_arena[ik[1]].slots[ik[2]]

\* The slots of arena a lie one after the other, S bytes each.
EquallySized(a, S) ==
    \A k \in DOMAIN a.slots : a.slots[k] = a.start_addr + (k - 1) * S

\* C1: every trampoline compile_trampoline hands out is the address of a
\* complete copy of the template, with no bytes of a neighbouring copy in
\* its code range, whatever the padding at arena creation or later.
C1_SlotIsTemplateCopy ==
    \A ik \in LiveSlots : IsTemplateCopy(perf_code_arena[ik[1]], SlotAddr(ik))

\* C2: while the status stays Ok, two or more dispatches of a code object
\* that got compiled cause exactly one sink write and use exactly one slot.
C2_OneWritePerCode ==
    \A co \in Codes :
        (perf_status = "Ok" /\ dispatches[co] >= 2 /\ slots_used[co] >= 1)
            => (sink_writes[co] = 1 /\ slots_used[co] = 1)

C4_DistinctStubs ==
    \A x, y \in LiveSlots :
        x # y => \/ SlotAddr(x) + template_size <= SlotAddr(y)
                 \/ SlotAddr(y) + template_size <= SlotAddr(x)

\* Two trampolines were handed out, the second from a new arena or at a
\* stride other than the one the arena was filled with.
C4_Witness ==
    /\ last.op \in Compiling /\ last.acquired # NULL
    /\ Cardinality(LiveSlots) >= 2
    /\ \/ last.new_arena
       \/ \E i \in DOMAIN perf_code_arena :
             /\ Len(perf_code_arena[i].slots) >= 2
             /\ ~EquallySized(perf_code_arena[i], perf_code_arena[i].chunk)

\* C5: while the subsystem is active, every trampoline stored in a code
\* object's extra slot lies in an arena that is still mapped.
C5_StoredStubIsMapped ==
    perf_status = "Ok" =>
        \A co \in Codes :
            LET p == GetExtra(Cur, co, extra_code_index)
            IN  p # NULL => \E i \in DOMAIN perf_code_arena :
                                InArena(perf_code_arena[i], p)

\* C6: a trampoline handed out of arena a lies in [a.base, a.base + a.size)
\* at a multiple of S = round_up(T + P, 16) from a.base, P being the padding
\* at the acquisition: the slots of one arena are equally sized, also when
\* the sink changes P between two acquisitions from the arena.
C6_SlotOnGrid ==
    (last.op \in Compiling /\ last.acquired # NULL)
    => LET a == perf_code_arena[1]
       IN  /\ InArena(a, last.acquired)
           /\ (last.acquired - a.start_addr) % last.chunk = 0

\* C7: in every arena base <= cursor <= base + A, size_left is
\* (base + A) - cursor, and the cursor is a multiple of 16.
C7_ArenaInvariant ==
    \A i \in DOMAIN perf_code_arena :
        LET a == perf_code_arena[i]
        IN  /\ a.start_addr <= a.current_addr
            /\ a.current_addr <= a.start_addr + a.size
            /\ a.size_left = (a.start_addr + a.size) - a.current_addr
            /\ a.current_addr % CHUNK_ALIGN = 0

\* An arena whose cursor has moved, by a stride other than its chunk size.
C7_Witness ==
    \E i \in DOMAIN perf_code_arena :
        LET a == perf_code_arena[i]
        IN  /\ Len(a.slots) >= 2
            /\ a.slots[2] - a.slots[1] # a.chunk
            /\ a.current_addr > a.start_addr

\* C8: with slots of S bytes, an arena serves A div S acquisitions before
\* compile_trampoline allocates the next arena.
C8_ServesFloor ==
    (/\ last.op \in Compiling /\ last.new_arena /\ last.ub = "none"
     /\ Len(perf_code_arena) >= 2
     /\ EquallySized(perf_code_arena[2], last.chunk))
    => Len(perf_code_arena[2].slots) = mem_size \div last.chunk

\* C9: compile_trampoline called with no arena allocates one and returns
\* its base without reading a field of the absent head arena.
C9_NoNullArenaRead == last.ub # "null_arena_read"

\* C10: a dispatch with status Failed or NoInit returns the default
\* evaluator's result and acquires no slot, writes no sink entry and stores
\* nothing; a failed mmap in new_code_arena leaves the status Failed.
C10_BlockedDispatchIsDefault ==
    /\ (last.op = "Dispatch" /\ last.status \in {"Failed", "NoInit"}
        /\ ~crashed)
       => (/\ last.ret = "default"
           /\ last.acquired = NULL /\ ~last.new_arena
           /\ ~last.wrote /\ ~last.stored
           /\ last.had = NULL /\ last.f = NULL
           /\ last.ub = "none"
           /\ perf_status = last.status)
    /\ last.fail = "mmap" => perf_status = "Failed"

\* A dispatch after mmap failed in Init fell through to the default
\* evaluator.
C10_Witness ==
    /\ last.op = "Dispatch" /\ last.status = "Failed"
    /\ eval_frame = "trampoline" /\ last.ret = "default" /\ ~crashed

\* C11: when arena creation fails, by mmap, by mprotect or for want of
\* memory for the arena record, the status becomes Failed.
C11_FailureSetsFailed ==
    last.fail \in ArenaFaults => perf_status = "Failed"

\* C12 (as stated): once the status is Failed it stays Failed after every
\* operation.
C12_FailedIsSticky ==
    [][perf_status = "Failed" => perf_status' = "Failed"]_vars

\* C12 (amended): a Failed status is left only through Init: Init(false)
\* makes it NoInit, and an Init(true) that succeeds, called directly or by
\* the fork-child handler, makes it Ok; every other operation keeps it.
C12_FailedUntilInit ==
    [][(perf_status = "Failed" /\ perf_status' # "Failed")
       => \/ last'.op = "Init" /\ perf_status' = "NoInit"
          \/ /\ last'.op \in {"Init", "AfterFork_Child"}
             /\ perf_status' = "Ok"
             /\ last'.new_arena /\ last'.rc = 0]_vars

\* Fini ran on a Failed status and left it.
C12_Witness ==
    /\ last.op = "Fini" /\ last.status = "Failed"
    /\ perf_status = "Failed" /\ ~crashed

\* An arena as new_code_arena leaves it.
FreshArena(a) ==
    /\ a.current_addr = a.start_addr
    /\ a.size_left = mem_size /\ a.size = mem_size
    /\ a.slots = <<>>

\* C13: an Init(true) that returns success from status NoInit leaves the
\* status Ok, the trampoline evaluator installed and a new, untouched arena
\* at the head of the list, and has called the sink's init when the sink
\* state was null; the status becomes Ok by no other way.
C13_InitActivates ==
    [][/\ (/\ n_ops' = n_ops + 1
           /\ last'.op = "Init" /\ perf_status = "NoInit"
           /\ last'.new_arena /\ last'.rc = 0)
          => (/\ perf_status' = "Ok"
              /\ eval_frame' = "trampoline"
              /\ Len(perf_code_arena') = Len(perf_code_arena) + 1
              /\ Tail(perf_code_arena') = perf_code_arena
              /\ FreshArena(perf_code_arena'[1])
              /\ (trampoline_api.state = "NULL"
                  /\ trampoline_api.callbacks # "none") => last'.inited)
       /\ (perf_status # "Ok" /\ perf_status' = "Ok")
          => (/\ last'.op \in {"Init", "AfterFork_Child"}
              /\ last'.new_arena /\ last'.rc = 0)]_vars

\* Init(true) succeeded from NoInit and called the sink's init.
C13_Witness ==
    /\ last.op = "Init" /\ last.status = "NoInit" /\ last.inited
    /\ last.new_arena /\ last.rc = 0 /\ perf_status = "Ok"

\* The sink the installed callbacks belong to holds an open file.
ActiveSinkInitialised ==
    \/ /\ trampoline_api.callbacks = "jitdump"
       /\ perf_jit_map_state.perf_map \in {"open", "inherited"}
    \/ /\ trampoline_api.callbacks = "perfmap"
       /\ perf_map_state # "NULL"

\* C14: when Fini returns, whatever the status was, the trampoline evaluator
\* is not the installed hook and an initialised sink has had its fini
\* called; the arena list is as it was, and a status of Ok has become NoInit.
C14_FiniTearsDown ==
    [][(n_ops' = n_ops + 1 /\ last'.op = "Fini" /\ ~crashed')
       => (/\ eval_frame' # "trampoline"
           /\ ActiveSinkInitialised => last'.finied
           /\ perf_code_arena' = perf_code_arena
           /\ perf_status = "Ok" => perf_status' = "NoInit")]_vars

\* C15: with an evaluator other than the trampoline's installed, Init, with
\* activate true or false, returns an error and changes nothing: status,
\* hook, arena list, extra index and sink state stay, and the sink's init
\* is not called.
C15_ForeignHookRefused ==
    [][(n_ops' = n_ops + 1 /\ last'.op = "Init" /\ eval_frame = "foreign")
       => (/\ last'.rc = -1 /\ ~last'.inited /\ ~crashed'
           /\ UNCHANGED <<perf_status, eval_frame, perf_code_arena,
                          extra_code_index, trampoline_api,
                          perf_trampoline_type, perf_jit_map_state,
                          jit_file, perf_map_state, map_file>>)]_vars

\* Init refused while the subsystem was Ok under a foreign evaluator.
C15_Witness ==
    /\ last.op = "Init" /\ last.fail = "foreign" /\ last.rc = -1
    /\ eval_frame = "foreign" /\ perf_status = "Ok"
    /\ perf_code_arena # <<>>

\* C16: in a forked child, unless persist_after_fork is set with the perf
\* map sink active, the handler tears the subsystem down and, when the
\* trampoline was active, starts it afresh: hook installed, status Ok, a new
\* head arena, and the sink initialised again on a new jitdump file.  An
\* allocation that fails during the restart is not held against the handler.
C16_ForkChildRestarts ==
    [][(/\ n_ops' = n_ops + 1
        /\ last'.op = "AfterFork_Child" /\ ~crashed'
        /\ ~(persist_after_fork /\ perf_trampoline_type = "MAP"))
       => IF eval_frame = "trampoline"
          THEN \/ last'.fail \in ArenaFaults \cup {"index"}
               \/ /\ eval_frame' = "trampoline"
                  /\ perf_status' = "Ok"
                  /\ Len(perf_code_arena') = Len(perf_code_arena) + 1
                  /\ FreshArena(perf_code_arena'[1])
                  /\ trampoline_api.callbacks = "jitdump"
                     => \/ last'.init_ret = "NULL"
                        \/ /\ perf_jit_map_state'.perf_map = "open"
                           /\ perf_jit_map_state'.code_id = 0
                           /\ jit_file' = <<JitHeader>>
          ELSE /\ eval_frame' # "trampoline"
               /\ perf_status' # "Ok"
               /\ perf_jit_map_state'.perf_map # "inherited"]_vars

\* C17: in a forked child with persist_after_fork set and the perf map sink
\* active, the handler first tears the subsystem down (status NoInit, hook
\* removed, sink finalised), so that nothing compiles a trampoline on a
\* dispatch afterwards, and then copies the parent's perf map file: unless
\* the copy itself fails, the child's own file holds what the parent's file
\* held at the fork.
C17_PersistCopiesAfterTeardown ==
    [][(/\ n_ops' = n_ops + 1
        /\ last'.op = "AfterFork_Child" /\ ~crashed'
        /\ persist_after_fork
        /\ trampoline_api.callbacks = "perfmap"
        /\ perf_trampoline_type = "MAP")
       => (/\ perf_status' = "NoInit"
           /\ eval_frame' # "trampoline"
           /\ last'.finied
           /\ last'.fail # "copy"
              => (last'.copied = "open" /\ map_file' = map_file))]_vars

IsCodeLoad(r) == r[1] = "CodeLoad"

IsUnwindingInfo(r) == r[1] = "UnwindingInfo"

\* The code load events of a jitdump file, in file order.
CodeLoads(file) == SelectSeq(file, IsCodeLoad)

\* The process's jitdump file numbers its code load events 1, 2, ... in file
\* order and holds as many unwinding records; the counter of an open sink
\* is the number of code load events in its file.
JitFileNumbered ==
    /\ \A i \in 1..Len(CodeLoads(jit_file)) : CodeLoads(jit_file)[i][2] = i
    /\ Len(SelectSeq(jit_file, IsUnwindingInfo)) = Len(CodeLoads(jit_file))
    /\ perf_jit_map_state.perf_map = "open"
       => perf_jit_map_state.code_id = Len(CodeLoads(jit_file))

\* A stub written to an open jitdump sink adds one UnwindingInfo and one
\* CodeLoad record to the file the sink had, or to the header of the file a
\* lazy init has just created, the CodeLoad numbered one more than the
\* CodeLoad records before it.
JitEmissionNumbered ==
    (/\ n_ops' = n_ops + 1 /\ ~crashed' /\ last'.wrote
     /\ trampoline_api.callbacks = "jitdump"
     /\ perf_jit_map_state'.perf_map = "open")
    => LET before == IF perf_jit_map_state.perf_map = "open"
                     THEN jit_file ELSE <<JitHeader>>
       IN  jit_file' = before \o <<JitUnwindingInfo,
                                   JitCodeLoad(Len(CodeLoads(before)) + 1)>>

C19_HeaderFirstUnwindBeforeLoad ==
    /\ jit_file # <<>> => jit_file[1] = JitHeader
    /\ \A i \in 1..Len(jit_file) :
          /\ jit_file[i] = JitHeader => i = 1
          /\ IsCodeLoad(jit_file[i])
             => (i > 1 /\ IsUnwindingInfo(jit_file[i - 1]))
          /\ IsUnwindingInfo(jit_file[i])
             => (i < Len(jit_file) /\ IsCodeLoad(jit_file[i + 1]))

\* The first stub of a jitdump file has been written after its header.
C19_Witness ==
    /\ last.wrote /\ ~crashed
    /\ jit_file = <<JitHeader, JitUnwindingInfo, JitCodeLoad(1)>>

\* Thread t is inside the emission of one stub.
Emitting(t) == pc[t] \in {"entry", "unwound", "counted"}

\* C20: a thread emitting the records of a stub to the jitdump file (the
\* UnwindingInfo record, the code_id increment, the CodeLoad record) holds
\* the sink's lock from the first write to the last.
C20_EmissionHoldsSinkLock ==
    \A t \in Threads : Emitting(t) => map_lock_owner = t

\* A record of the jitdump file has just been written.
RecordWritten == calc.kind \in {"UnwindingInfo", "CodeLoad"}

\* C21 as stated: every record written to the jitdump file, UnwindingInfo
\* or CodeLoad, takes as many bytes as its size field says, and that number
\* is a multiple of 8, whatever the name length and the code size.
C21_RecordSizeMultipleOf8 ==
    RecordWritten
    => (/\ SumSeq(calc.result.written) = calc.result.size
        /\ calc.result.size % 8 = 0)

\* C21: every record takes as many bytes as its size field says; an
\* UnwindingInfo record is padded to a multiple of 8; a CodeLoad record is
\* the event, the name with its NUL and the code, with no padding.
C21_RecordSizeMatches ==
    /\ RecordWritten => SumSeq(calc.result.written) = calc.result.size
    /\ calc.kind = "UnwindingInfo"
       => (/\ calc.result.size % 8 = 0
           /\ calc.result.written[4] \in 0..7)
    /\ calc.kind = "CodeLoad"
       => calc.result.size = sizeof_CodeLoadEvent + calc.name_length + 1
                             + calc.code_size

\* An unwinding record that needed padding has been written.
C21_Witness ==
    /\ calc.kind = "UnwindingInfo"
    /\ calc.result.written[4] > 0
    /\ calc.result.size % 8 = 0

\* The last operation, run with status Ok, compiled a stub and its records
\* went into this process's jitdump file.
EmittedToJitdump ==
    /\ ~crashed /\ last.wrote /\ last.acquired # NULL
    /\ last.status = "Ok" /\ last.ub = "none"
    /\ trampoline_api.callbacks = "jitdump"
    /\ perf_jit_map_state.perf_map = "open"

\* C22: a stub whose records are in the jitdump file had its slot taken
\* with a padding that holds its unwinding data, so that its range
\* [vma, vma + code_size + mapped_size) ends inside its own chunk and meets
\* the range of no other stub; this also when the slot was taken before the
\* sink's init succeeded, lazily, inside the write.
C22_EmittedStubsDisjoint ==
    EmittedToJitdump
    => \A e \in EhFrameSizes :
          /\ last.chunk >= template_size
                           + UnwindingInfoRecord(e).unwind_data_size
          /\ last.chunk >= template_size + UnwindingInfoRecord(e).mapped_size

\* The jitdump file holds a header.
HasJitHeader(file) == \E i \in 1..Len(file) : file[i] = JitHeader

\* C23: a sink init that cannot map the first page of the jitdump file (or
\* cannot open the file) returns null with no header written and the
\* padding as it was; an initialised sink has its handshake mapping, from
\* init to fini.
C23_HandshakeOrNoSink ==
    [][/\ perf_jit_map_state'.perf_map = "open"
          => perf_jit_map_state'.mapped_buffer = "mapped"
       /\ (/\ perf_jit_map_state'.mapped_buffer = "MAP_FAILED"
           /\ perf_jit_map_state.mapped_buffer # "MAP_FAILED")
          => (/\ perf_jit_map_state'.perf_map # "open"
              /\ ~HasJitHeader(jit_file')
              /\ trampoline_api'.code_padding
                   = trampoline_api.code_padding)]_vars

\* The extra slot the subsystem holds in code object co, read before the
\* step; NULL when the index is not one the host handed out.
SlotOf(co) ==
    IF extra_code_index < 0 \/ extra_code_index >= co_extra_user_count
    THEN NULL ELSE co_extra[co][extra_code_index]

\* C24: with status Ok, CompileCode on a code object without a stub, when
\* a slot can be had, takes exactly one slot, writes it once to the sink
\* and stores it in the code object's extra slot without calling anything;
\* on a code object with a stub it does nothing; a dispatch of a code
\* object with a stored stub calls through that address and writes nothing
\* to the sink.
C24_CompileCodeWarmsUp ==
    [][\A co \in Codes :
        /\ (/\ n_ops' = n_ops + 1 /\ ~crashed'
            /\ last'.op = "CompileCode" /\ last'.co = co
            /\ perf_status = "Ok"
            /\ SlotOf(co) = NULL /\ last'.acquired # NULL)
           => (/\ n_acquired' = n_acquired + 1
               /\ last'.wrote
               /\ sink_writes'[co] = sink_writes[co] + 1
               /\ extra_code_index \in DOMAIN co_extra[co]
               /\ co_extra'[co][extra_code_index] = last'.acquired
               /\ \A c \in Codes \ {co} : co_extra'[c] = co_extra[c]
               /\ last'.ret = "none" /\ last'.f = NULL)
        /\ (/\ n_ops' = n_ops + 1 /\ ~crashed'
            /\ last'.op = "CompileCode" /\ last'.co = co
            /\ perf_status = "Ok" /\ SlotOf(co) # NULL)
           => (/\ ~last'.wrote /\ last'.acquired = NULL
               /\ last'.ret = "none" /\ last'.f = NULL
               /\ UNCHANGED <<perf_code_arena, co_extra, n_acquired,
                              sink_writes, jit_file, map_file,
                              perf_jit_map_state, perf_map_state,
                              perf_status, eval_frame, extra_code_index>>)
        /\ (/\ n_ops' = n_ops + 1 /\ ~crashed'
            /\ last'.op = "Dispatch" /\ last'.co = co
            /\ perf_status = "Ok" /\ SlotOf(co) # NULL)
           => (/\ last'.f = SlotOf(co)
               /\ ~last'.wrote /\ last'.acquired = NULL
               /\ UNCHANGED <<sink_writes, jit_file, map_file, co_extra>>)
      ]_vars

\* One of the two round_up functions has returned.
RoundUpReturned == calc.kind \in {"round_up", "jit_round_up"}

\* C25 as stated: for every value and every multiple > 0 what round_up
\* returns is at least the value and is 0 modulo the multiple; with the
\* multiple 0 it returns the value; for a value >= 0 it returns the least
\* such multiple.  Both copies.
C25_RoundUp ==
    RoundUpReturned
    => (/\ calc.multiple > 0
           => (/\ SizeGeq(calc.result, calc.value)
               /\ SizeMod(calc.result, calc.multiple) = 0)
        /\ calc.multiple = 0 => SizeEq(calc.result, calc.value)
        /\ (calc.multiple > 0 /\ calc.value >= 0)
           => (~calc.result.wrapped
               /\ calc.result.low - calc.value < calc.multiple))

\* C25: for a value >= 0 round_up returns the value when the multiple is 0
\* and otherwise the least multiple that is at least the value.  For a
\* value < 0 the int64_t it computes is the value itself (multiple 0) or a
\* multiple, at most the multiple itself, that is at least the value, and
\* what it returns is that number as a size_t: itself plus 2^64 when it is
\* negative.
C25_RoundUpNonNegative ==
    RoundUpReturned
    => (/\ calc.value >= 0
           => (/\ ~calc.result.wrapped
               /\ calc.multiple = 0 => calc.result.low = calc.value
               /\ calc.multiple > 0
                  => (/\ calc.result.low >= calc.value
                      /\ calc.result.low % calc.multiple = 0
                      /\ calc.result.low - calc.value < calc.multiple))
        /\ calc.value < 0
           => (/\ calc.result.wrapped <=> calc.result.low < 0
               /\ calc.multiple = 0 => calc.result.low = calc.value
               /\ calc.multiple > 0
                  => (/\ calc.result.low >= calc.value
                      /\ calc.result.low <= calc.multiple
                      /\ calc.result.low % calc.multiple = 0)))

\* round_up has rounded a positive value up to the next multiple.
C25_Witness ==
    /\ calc.kind = "round_up"
    /\ calc.value > 0 /\ calc.multiple > 1
    /\ calc.result.low > calc.value
    /\ calc.result.low % calc.multiple = 0

\* The step is a dispatch that returned.
DispatchStep == n_ops' = n_ops + 1 /\ last'.op = "Dispatch" /\ ~crashed'

\* The dispatch of the step could not get a trampoline, and fell back.
FailedDispatchFallsBack ==
    (DispatchStep /\ last'.fail \in ArenaFaults)
    => (/\ last'.ret = "default"
        /\ last'.acquired = NULL /\ ~last'.new_arena
        /\ ~last'.wrote /\ ~last'.stored
        /\ co_extra' = co_extra
        /\ GetExtra(Cur, last'.co, extra_code_index) = NULL
        /\ sink_writes' = sink_writes
        /\ map_file' = map_file
        /\ perf_jit_map_state' = perf_jit_map_state)

\* The step dispatches the code object whose dispatch has just failed.
DispatchAfterFailure(why) ==
    /\ DispatchStep
    /\ last.op = "Dispatch" /\ last.co = last'.co /\ last.fail \in why

\* The dispatch of the step asked for a trampoline.
Reattempts == last'.fail \in ArenaFaults \/ last'.acquired # NULL

NoStrayMapping == mappings = Mapped(Cur)

\* The step is an operation in which new_code_arena failed after its mmap.
ArenaFailedAfterMmap ==
    /\ n_ops' = n_ops + 1 /\ ~crashed'
    /\ last'.fail \in {"mprotect", "calloc"}

\* C27: when new_code_arena fails after its mmap, by mprotect or for want
\* of memory for the arena record, the new region is unmapped again, the
\* arena list is as it was (the head and every arena's cursor and
\* size_left), and the caller sees the failure: compile_trampoline returns
\* NULL and Init returns -1.
C27_LateFailureUndone ==
    /\ []NoStrayMapping
    /\ [][ArenaFailedAfterMmap
          => (/\ mappings' = mappings
              /\ perf_code_arena' = perf_code_arena
              /\ ~last'.new_arena
              /\ last'.rc = -1
              /\ last'.op \in Compiling
                 => (/\ last'.acquired = NULL
                     /\ ~last'.wrote /\ ~last'.stored
                     /\ n_acquired' = n_acquired))]_vars

\* mprotect or the allocation of the record failed while a trampoline was
\* being compiled with an arena in the list, which is still there.
C27_Witness ==
    /\ last.op \in Compiling /\ last.fail \in {"mprotect", "calloc"}
    /\ perf_code_arena # <<>> /\ perf_code_arena[1].slots # <<>>
    /\ mappings = Mapped(Cur)
    /\ last.acquired = NULL /\ ~crashed

\* C28: the sink's write callback is called, and a trampoline taken from an
\* arena, only in an operation that began with the status Ok; a CompileCode
\* that begins with the status NoInit or Failed does nothing: it takes no
\* trampoline, does not call the sink's write or init, and stores nothing
\* in the extra slot.
C28_CompileCodeOnlyWhenOk ==
    [][/\ (n_ops' = n_ops + 1 /\ (last'.wrote \/ last'.acquired # NULL))
          => perf_status = "Ok"
       /\ (/\ n_ops' = n_ops + 1
           /\ last'.op = "CompileCode"
           /\ perf_status \in {"NoInit", "Failed"})
          => (/\ ~crashed'
              /\ last'.acquired = NULL /\ ~last'.new_arena
              /\ ~last'.wrote /\ ~last'.inited /\ ~last'.stored
              /\ UNCHANGED <<perf_code_arena, mappings, co_extra,
                             n_acquired, sink_writes, jit_file, map_file,
                             perf_jit_map_state, perf_map_state>>)]_vars

\* C29: after a perf_map_jit_init that returned NULL, at whichever step,
\* perf_jit_map_state.perf_map is NULL: the sink never holds the handle of
\* a file it has closed, and no write or fini uses such a handle or a lock
\* that was never allocated.
C29_FailedInitLeavesNoHandle ==
    /\ perf_jit_map_state.perf_map \in {"NULL", "open", "inherited"}
    /\ perf_jit_map_state.perf_map \in {"open", "inherited"}
       => perf_jit_map_state.map_lock
    /\ last.ub # "closed_file"

\* C30: an Init(true) that returns an error because new_code_arena or the
\* request of the extra-slot index failed leaves the trampoline evaluator
\* not installed and the status not Ok; the evaluator becomes the
\* interpreter's hook only in an Init(true) that succeeds.
C30_FailedInitNotInstalled ==
    [][/\ (/\ n_ops' = n_ops + 1
           /\ last'.op = "Init"
           /\ last'.rc = -1
           /\ last'.fail \in ArenaFaults \cup {"index"})
          => (eval_frame' # "trampoline" /\ perf_status' # "Ok")
       /\ (eval_frame # "trampoline" /\ eval_frame' = "trampoline")
          => (/\ last'.op \in {"Init", "AfterFork_Child"}
              /\ last'.rc = 0)]_vars

====
